---- MODULE Spec2Model ----
(***************************************************************************)
(* Model of the reberu key-value engine (src/src/lib.rs).                  *)
(*                                                                         *)
(* A Database owns three handles on ONE open file description (file, and   *)
(* the try_clone()d handles inside reader and writer), so all three share  *)
(* a single file offset `pos`.  The file is opened without O_APPEND: every *)
(* write lands at `pos`.  reader is a BufReader with a private buffer      *)
(* `rbuf` that survives a seek done through `file`.  idxs maps a key to    *)
(* the offset recorded when the key was last put.                          *)
(*                                                                         *)
(* Bytes are one-character strings; keys, values and the file are          *)
(* sequences of bytes.                                                     *)
(***************************************************************************)
EXTENDS Naturals, Sequences, FiniteSets

VARIABLES
    disk,       \* bytes of the file at the engine's path
    pos,        \* offset of the shared open file description
    rbuf,       \* unconsumed bytes held by reader (BufReader)
    wbuf,       \* bytes held by writer (BufWriter) that a flush did not write
    idxs,       \* HashMap<Vec<u8>, u64>
    panicked,   \* an unwrap() inside the last call panicked
    truncated,  \* the truncate argument the engine was opened with
    base,       \* history: file bytes at the path when Database::new was called
    log,        \* history: the records of the completed puts, in call order
    model,      \* history: key -> <<v>> if the latest put/delete call on it is put(k, v), else <<>>
    everPut,    \* history: keys put since the engine was opened
    nbytes,     \* history: number of bytes the put calls were given to write
    order,      \* the iteration order of the index: the live keys, first present first
    last        \* history: the last call, its key and the kind of its result

vars == <<disk, pos, rbuf, wbuf, idxs, panicked, truncated, base, log,
          model, everPut, nbytes, order, last>>

engine == <<disk, pos, rbuf, wbuf, idxs, panicked>>

---------------------------------------------------------------------------
(* Bounds of the model *)

MaxBytes == 15

(* Bytes *)

Comma == ","
NL == "\n"

(* Keys and values the calls are made with: non-empty, without "," or "\n" *)
Keys == {<<"a">>, <<"b">>}
Values == {<<"x">>, <<"y", "z">>}

Min(a, b) == IF a <= b THEN a ELSE b

(* io::BufReader::new: DEFAULT_BUF_SIZE of the standard library *)
BufCap == 8192

---------------------------------------------------------------------------
(* Results of the KV trait *)

OkVal(v) == [tag |-> "Ok", val |-> v, flag |-> TRUE]
OkBool(b) == [tag |-> "Ok", val |-> <<>>, flag |-> b]
OkUnit == [tag |-> "Ok", val |-> <<>>, flag |-> TRUE]
KeyNotFound == [tag |-> "KeyNotFound", val |-> <<>>, flag |-> FALSE]
Panic == [tag |-> "Panic", val |-> <<>>, flag |-> FALSE]

Call(op, k, r) == [op |-> op, key |-> k, tag |-> r.tag]

---------------------------------------------------------------------------
(* The file *)

Record(k, v) == k \o <<Comma>> \o v \o <<NL>>

\* write(2) of bytes b at offset p of a file opened without O_APPEND
WriteAt(d, p, b) ==
    LET n == IF p + Len(b) > Len(d) THEN p + Len(b) ELSE Len(d)
    IN [i \in 1..n |-> IF i > p /\ i <= p + Len(b) THEN b[i - p]
                       ELSE IF i <= Len(d) THEN d[i]
                       ELSE "0"]

\* read(2) at offset p into an empty buffer of BufCap bytes
FillBuf(d, p) == IF p >= Len(d) THEN <<>> ELSE SubSeq(d, p + 1, Min(Len(d), p + BufCap))

\* position of the first NL in b, 0 if there is none
FirstNL(b) == IF \E i \in 1..Len(b) : b[i] = NL
              THEN CHOOSE i \in 1..Len(b) : b[i] = NL /\ \A j \in 1..(i - 1) : b[j] # NL
              ELSE 0

\* BufRead::read_until(b'\n', &mut value) on reader: serve from the buffer,
\* refill it from the file at the shared offset only when it is empty
RECURSIVE ReadUntil(_, _, _, _)
ReadUntil(d, p, rb, acc) ==
    LET avail == IF rb = <<>> THEN FillBuf(d, p) ELSE rb
        p2 == IF rb = <<>> THEN p + Len(avail) ELSE p
        i == FirstNL(avail)
    IN IF avail = <<>> THEN [value |-> acc, pos |-> p2, rbuf |-> <<>>]
       ELSE IF i > 0 THEN [value |-> acc \o SubSeq(avail, 1, i), pos |-> p2,
                           rbuf |-> SubSeq(avail, i + 1, Len(avail))]
       ELSE ReadUntil(d, p2, <<>>, acc \o avail)

\* Vec::pop
Pop(v) == IF v = <<>> THEN <<>> ELSE SubSeq(v, 1, Len(v) - 1)

---------------------------------------------------------------------------
(* The index *)

ContainsKey(ix, k) == k \in DOMAIN ix

Insert(ix, k, off) == [j \in DOMAIN ix \cup {k} |-> IF j = k THEN off ELSE ix[j]]

Remove(ix, k) == [j \in DOMAIN ix \ {k} |-> ix[j]]

EmptyIdx == [j \in {} |-> 0]

\* insert_or_update: a new key goes to the end of the iteration order, a key
\* that is present keeps its place
InsertOrUpdateOrder(o, k) ==
    IF \E i \in 1..Len(o) : o[i] = k THEN o ELSE Append(o, k)

\* remove: the key leaves the iteration order
RemoveOrder(o, k) == SelectSeq(o, LAMBDA j : j # k)

---------------------------------------------------------------------------
(* The KV operations as functions of the engine state *)

\* has answering whether the index holds any key at all
HasOp_AnyKey(ix, k) == OkBool(DOMAIN ix # {})

\* Database::has
HasOp(ix, k) == OkBool(ContainsKey(ix, k))

\* a get that rewinds the file before it looks the key up
GetOp_Rewind(ix, d, p, rb, k) ==
    IF ~ContainsKey(ix, k)
    THEN [res |-> KeyNotFound, pos |-> 0, rbuf |-> rb]
    ELSE LET r == ReadUntil(d, ix[k], rb, <<>>)
         IN [res |-> OkVal(Pop(r.value)), pos |-> r.pos, rbuf |-> r.rbuf]

\* Database::get: result and the offset and reader buffer it leaves behind
GetOp(ix, d, p, rb, k) ==
    IF ~ContainsKey(ix, k)
    THEN [res |-> KeyNotFound, pos |-> p, rbuf |-> rb]
    ELSE LET r == ReadUntil(d, ix[k], rb, <<>>)
         IN [res |-> OkVal(Pop(r.value)), pos |-> r.pos, rbuf |-> r.rbuf]

\* into_iter: walk the index in iteration order o and read each value from
\* the file the way get reads it (seek file, read_until on reader, pop)
RECURSIVE IntoIter(_, _, _, _, _)
IntoIter(ix, d, p, rb, o) ==
    IF o = <<>> THEN <<>>
    ELSE LET g == GetOp(ix, d, p, rb, Head(o))
         IN <<<<Head(o), g.res.val>>>> \o IntoIter(ix, d, g.pos, g.rbuf, Tail(o))

\* the first read(2) that get(k) issues, if any, is the one that can fail
GetReads(ix, rb, k) == ContainsKey(ix, k) /\ rb = <<>>

---------------------------------------------------------------------------
(* Files that may exist at the path before the first Database::new *)

PriorFiles == {<<>>, Record(<<"b">>, <<"y", "z">>)}

NoValue == [k \in Keys |-> <<>>]

\* an open that ignores its truncate argument
TruncateFile_Ignored(d, truncate) == d

\* OpenOptions::truncate(truncate)
TruncateFile(d, truncate) == IF truncate THEN <<>> ELSE d

\* an open that keeps the index of the engine before it
NewIdxs_Kept(ix) == ix

\* idxs: HashMap::new()
NewIdxs(ix) == EmptyIdx

Init ==
    /\ truncated \in BOOLEAN
    /\ base \in PriorFiles
    /\ disk = TruncateFile(base, truncated)
    /\ pos = 0
    /\ rbuf = <<>>
    /\ wbuf = <<>>
    /\ idxs = EmptyIdx
    /\ panicked = FALSE
    /\ log = <<>>
    /\ model = NoValue
    /\ everPut = {}
    /\ nbytes = 0
    /\ order = <<>>
    /\ last = Call("open", <<>>, OkUnit)

---------------------------------------------------------------------------
(* Database::new on the path of the engine, after the engine was dropped.  *)
(* Dropping writer flushes what an earlier failed flush left in its        *)
(* buffer; the flush may again write only part of it.                      *)

Open(truncate) ==
    /\ \E n \in 0..Len(wbuf) :
         LET dropped == WriteAt(disk, pos, SubSeq(wbuf, 1, n))
         IN /\ disk' = TruncateFile(dropped, truncate)
            /\ base' = dropped
    /\ pos' = 0
    /\ rbuf' = <<>>
    /\ wbuf' = <<>>
    /\ idxs' = NewIdxs(idxs)
    /\ panicked' = FALSE
    /\ truncated' = truncate
    /\ model' = NoValue
    /\ everPut' = {}
    /\ last' = Call("open", <<>>, OkUnit)
    /\ log' = <<>>
    /\ order' = <<>>
    /\ UNCHANGED nbytes

---------------------------------------------------------------------------
(* Database::get *)

Get(k) ==
    /\ ~panicked
    /\ LET g == GetOp(idxs, disk, pos, rbuf, k)
       IN /\ pos' = g.pos
          /\ rbuf' = g.rbuf
          /\ last' = Call("get", k, g.res)
    /\ UNCHANGED <<disk, wbuf, idxs, panicked, truncated, base, log, model,
                   everPut, nbytes, order>>

\* the read(2) issued by read_until fails: unwrap() panics after the seek
GetFail(k) ==
    /\ ~panicked
    /\ GetReads(idxs, rbuf, k)
    /\ pos' = idxs[k]
    /\ panicked' = TRUE
    /\ last' = Call("get", k, Panic)
    /\ UNCHANGED <<disk, rbuf, wbuf, idxs, truncated, base, log, model,
                   everPut, nbytes, order>>

(* Database::has *)

\* a has that probes the file by seeking to the offset of the key
HasFile_Seek(p, rb, ix, k) == IF ContainsKey(ix, k) THEN <<ix[k], rb>> ELSE <<p, rb>>

\* file offset and reader buffer after has: its body uses idxs only
HasFile(p, rb, ix, k) == <<p, rb>>

Has(k) ==
    /\ ~panicked
    /\ pos' = HasFile(pos, rbuf, idxs, k)[1]
    /\ rbuf' = HasFile(pos, rbuf, idxs, k)[2]
    /\ last' = Call("has", k, HasOp(idxs, k))
    /\ UNCHANGED <<disk, wbuf, idxs, panicked, truncated, base,
                   log, model, everPut, nbytes, order>>

(* Database::delete *)

\* a delete that leaves the entry in the index
DeleteOp_NoRemove(ix, k) == ix

\* idxs.remove(key)
DeleteOp(ix, k) == Remove(ix, k)

\* a delete that cuts the file at the start of the record of the key
DeleteFile_Cut(d, ix, k) ==
    IF ContainsKey(ix, k) THEN SubSeq(d, 1, ix[k] - Len(k) - 1) ELSE d

\* the body of delete makes no call on file, reader or writer
DeleteFile(d, ix, k) == d

Delete(k) ==
    /\ ~panicked
    /\ idxs' = DeleteOp(idxs, k)
    /\ disk' = DeleteFile(disk, idxs, k)
    /\ model' = [model EXCEPT ![k] = <<>>]
    /\ order' = RemoveOrder(order, k)
    /\ last' = Call("delete", k, OkUnit)
    /\ UNCHANGED <<pos, rbuf, wbuf, panicked, truncated, base, log,
                   everPut, nbytes>>

---------------------------------------------------------------------------
(* Database::put.  The writer buffers key and "," and flushes them, the    *)
(* index entry is inserted with the offset the flush left, then value and  *)
(* "\n" are buffered and flushed.                                          *)

\* file.stream_position() after the first flush
StreamPosition(p, k) == p + Len(k) + 1

\* idxs.insert(key.to_vec(), stream_position)
PutIndex(ix, p, k) == Insert(ix, k, StreamPosition(p, k))

\* file bytes after both flushes
PutFile(d, p, k, v) ==
    WriteAt(WriteAt(d, p, k \o <<Comma>>), StreamPosition(p, k), v \o <<NL>>)

Put(k, v) ==
    /\ ~panicked
    /\ nbytes + Len(Record(k, v)) <= MaxBytes
    /\ disk' = PutFile(disk, pos, k, v)
    /\ idxs' = PutIndex(idxs, pos, k)
    /\ pos' = StreamPosition(pos, k) + Len(v) + 1
    /\ log' = log \o Record(k, v)
    /\ model' = [model EXCEPT ![k] = <<v>>]
    /\ everPut' = everPut \cup {k}
    /\ nbytes' = nbytes + Len(Record(k, v))
    /\ order' = InsertOrUpdateOrder(order, k)
    /\ last' = Call("put", k, OkUnit)
    /\ UNCHANGED <<rbuf, wbuf, panicked, truncated, base>>

\* the first flush (line 88) fails after writing n bytes of key and ",":
\* unwrap() panics before the index is touched
PutFailKey(k, v) ==
    /\ ~panicked
    /\ nbytes + Len(Record(k, v)) <= MaxBytes
    /\ \E n \in 0..Len(k) :
         /\ disk' = WriteAt(disk, pos, SubSeq(k \o <<Comma>>, 1, n))
         /\ pos' = pos + n
         /\ wbuf' = SubSeq(k \o <<Comma>>, n + 1, Len(k) + 1)
    /\ panicked' = TRUE
    /\ everPut' = everPut \cup {k}
    /\ nbytes' = nbytes + Len(Record(k, v))
    /\ last' = Call("put", k, Panic)
    /\ model' = [model EXCEPT ![k] = <<v>>]
    /\ UNCHANGED <<rbuf, idxs, truncated, base, log, order>>

\* the second flush (line 92) fails after writing n bytes of value and "\n":
\* unwrap() panics after the index entry was inserted
PutFailValue(k, v) ==
    /\ ~panicked
    /\ nbytes + Len(Record(k, v)) <= MaxBytes
    /\ \E n \in 0..Len(v) :
         /\ disk' = WriteAt(WriteAt(disk, pos, k \o <<Comma>>), StreamPosition(pos, k),
                            SubSeq(v \o <<NL>>, 1, n))
         /\ pos' = StreamPosition(pos, k) + n
         /\ wbuf' = SubSeq(v \o <<NL>>, n + 1, Len(v) + 1)
    /\ idxs' = PutIndex(idxs, pos, k)
    /\ panicked' = TRUE
    /\ everPut' = everPut \cup {k}
    /\ nbytes' = nbytes + Len(Record(k, v))
    /\ last' = Call("put", k, Panic)
    /\ model' = [model EXCEPT ![k] = <<v>>]
    /\ order' = InsertOrUpdateOrder(order, k)
    /\ UNCHANGED <<rbuf, truncated, base, log>>

---------------------------------------------------------------------------

Next ==
    \/ \E t \in BOOLEAN : Open(t)
    \/ \E k \in Keys : Get(k)
    \/ \E k \in Keys : GetFail(k)
    \/ \E k \in Keys : Has(k)
    \/ \E k \in Keys : Delete(k)
    \/ \E k \in Keys, v \in Values : Put(k, v)
    \/ \E k \in Keys, v \in Values : PutFailKey(k, v)
    \/ \E k \in Keys, v \in Values : PutFailValue(k, v)

Spec == Init /\ [][Next]_vars

TypeOK ==
    /\ pos \in Nat
    /\ pos <= Len(disk)
    /\ DOMAIN idxs \subseteq Keys
    /\ \A k \in DOMAIN idxs : idxs[k] <= Len(disk)
    /\ panicked \in BOOLEAN
    /\ (~panicked => wbuf = <<>>)

---------------------------------------------------------------------------
(* What get and has would return in the current state *)

GetNow(k) == GetOp(idxs, disk, pos, rbuf, k).res

HasNow(k) == HasOp(idxs, k)

Absent(k) == HasNow(k) = OkBool(FALSE) /\ GetNow(k) = KeyNotFound

PutDone == last.op = "put" /\ last.tag = "Ok"

\* the step is a completed put(k, _) that directly follows a completed put(k, _)
PutAfterPut ==
    /\ PutDone
    /\ nbytes' > nbytes
    /\ last'.op = "put" /\ last'.tag = "Ok" /\ last'.key = last.key

\* the step is a put whose write failed
PutFailed == ~panicked /\ panicked' /\ last'.op = "put"

---------------------------------------------------------------------------
(* C1: round trip.  In every state reached by a completed put(k, v), with  *)
(* k and v non-empty and free of "," and "\n" (all of Keys and Values      *)
(* are), a get(k) made next returns exactly v.                             *)
C1_RoundTrip ==
    PutDone => GetNow(last.key) = OkVal(model[last.key][1])

(* C2: the engine is a plain map.  Whenever the latest put/delete call on  *)
(* k is a put(k, v), get(k) returns exactly v, whatever calls on other     *)
(* keys and whatever gets were made in between.                            *)
C2_PlainMap ==
    ~panicked => \A k \in Keys : model[k] # <<>> => GetNow(k) = OkVal(model[k][1])

(* C3: overwrite.  put(k, v1); put(k, v2); get(k) returns v2, and the      *)
(* index holds a single entry for k.                                       *)
C3_Overwrite ==
    [][PutAfterPut =>
         /\ GetOp(idxs', disk', pos', rbuf', last'.key).res = OkVal(model'[last'.key][1])
         /\ Cardinality({j \in DOMAIN idxs' : j = last'.key}) = 1]_vars

(* C4: delete.  delete(k) always succeeds; from a delete(k) until the next *)
(* put(k, _) has(k) is false and get(k) fails with KeyNotFound, whether or *)
(* not k was present; deleting k once more leaves the index as it is.      *)
C4_Delete ==
    /\ \A k \in Keys : model[k] = <<>> => Absent(k)
    /\ last.op = "delete" =>
         /\ last.tag = "Ok"
         /\ Absent(last.key)
         /\ DeleteOp(idxs, last.key) = idxs

\* a key that was put, with its record in the file, has just been deleted
\* while the other keys are present
C4_Witness ==
    /\ last.op = "delete"
    /\ last.key \in everPut
    /\ disk # <<>>
    /\ DOMAIN idxs = Keys \ {last.key}

(* C5: absence before write.  A key that was never put since the engine    *)
(* was opened is absent: has is false and get fails with KeyNotFound,      *)
(* whatever was done on other keys.                                        *)
C5_AbsentBeforeWrite ==
    \A k \in Keys \ everPut : Absent(k)

\* a get of a never-put key has failed in an engine that holds another key
C5_Witness ==
    /\ last.op = "get"
    /\ last.tag = "KeyNotFound"
    /\ last.key \notin everPut
    /\ idxs # EmptyIdx

(* C6: has and get never diverge.  has(k) is true exactly when get(k) does *)
(* not fail with KeyNotFound.                                              *)
C6_HasAgreesWithGet ==
    \A k \in Keys :
        /\ HasNow(k).tag = "Ok"
        /\ HasNow(k).flag <=> GetNow(k).tag # "KeyNotFound"

\* has was called on a present key while another key is absent
C6_Witness ==
    /\ last.op = "has"
    /\ ContainsKey(idxs, last.key)
    /\ \E k \in Keys : ~ContainsKey(idxs, k)

(* C9: truncate semantics.  Opening a path that was written through an     *)
(* engine again with truncate=true gives an empty file and an engine in    *)
(* which every key is absent.                                              *)
C9_Truncate ==
    (last.op = "open" /\ truncated) =>
        /\ disk = <<>>
        /\ \A k \in Keys : Absent(k)

\* a path that held bytes written by puts has been opened with truncate=true
C9_Witness ==
    /\ last.op = "open"
    /\ truncated
    /\ base # <<>>
    /\ nbytes > 0

(* C7: the log is append-only.  In an engine opened with truncate=true     *)
(* the file is exactly the concatenation, in call order, of the records    *)
(* key "," value "\n" of the puts performed.                               *)
C7_AppendOnly ==
    (truncated /\ ~panicked) => disk = log

(* C8: opening with truncate=false preserves the bytes already in the      *)
(* file, and every later put adds its record after them.                   *)
C8_PreservesExisting ==
    (~truncated /\ ~panicked) => disk = base \o log

(* C10: if a write of put(k, v) fails, the index is left exactly as it was *)
(* before the call.                                                        *)
C10_IndexAfterWrite ==
    [][PutFailed => idxs' = idxs]_vars

(* C11: every file-system failure inside get or put comes back to the      *)
(* caller as an I/O error result, distinct from KeyNotFound; it is not     *)
(* swallowed, not turned into a success, and does not abort the engine.    *)
C11_IoErrorReturned ==
    /\ ~panicked
    /\ last.tag \in {"Ok", "KeyNotFound", "IoError"}

(* C12: delete(k) leaves the bytes and the length of the file unchanged,   *)
(* for present and absent k alike.                                         *)
C12_DeleteKeepsFile ==
    [][last'.op = "delete" => (disk' = disk /\ Len(disk') = Len(disk))]_vars

\* a present key has been deleted and every record put is still in the file
C12_Witness ==
    /\ last.op = "delete"
    /\ last.key \in everPut
    /\ ~ContainsKey(idxs, last.key)
    /\ log # <<>>
    /\ disk = base \o log

\* the bytes of d from offset off up to, and excluding, the next NL
BytesUntilNL(d, off) ==
    LET rest == SubSeq(d, off + 1, Len(d))
        i == FirstNL(rest)
    IN IF i > 0 THEN SubSeq(rest, 1, i - 1) ELSE rest

\* the live keys in the order they became present, each with its current value
LiveInOrder == [i \in 1..Len(order) |-> <<order[i], model[order[i]][1]>>]

C14_IndexOffset ==
    ~panicked =>
        \A k \in DOMAIN idxs :
            LET off == idxs[k]
                v == model[k][1]
            IN /\ off >= Len(k) + 1
               /\ SubSeq(disk, off - Len(k), off) = k \o <<Comma>>
               /\ SubSeq(disk, off + 1, off + Len(v) + 1) = v \o <<NL>>

(* C15: for a key k in the index with offset off, get(k) returns exactly   *)
(* the file bytes from off up to, and excluding, the next "\n", also after *)
(* earlier gets and when other records follow the record of k.             *)
C15_GetReadsAtOffset ==
    ~panicked =>
        \A k \in DOMAIN idxs : GetNow(k) = OkVal(BytesUntilNL(disk, idxs[k]))

(* C16: has(k) is a pure index query: it does no file I/O, never fails and *)
(* leaves the engine state (index, file bytes, file offset, reader and     *)
(* writer buffers) unchanged.                                              *)
C16_HasIsPure ==
    [][last'.op = "has" => (engine' = engine /\ last'.tag = "Ok")]_vars

\* has was called while the reader held buffered bytes of a non-empty file
C16_Witness ==
    /\ last.op = "has"
    /\ rbuf # <<>>
    /\ pos > 0
    /\ idxs # EmptyIdx

\* the step is a get that returned
GetReturned == ~panicked /\ last'.op = "get" /\ last'.tag # "Panic"

(* C17: get is repeatable.  A get changes the result of no later get or    *)
(* has on any key; in particular get(k); get(k) return the same result.    *)
C17_GetRepeatable ==
    [][GetReturned =>
         \A k \in Keys :
             /\ GetOp(idxs', disk', pos', rbuf', k).res = GetOp(idxs, disk, pos, rbuf, k).res
             /\ HasOp(idxs', k) = HasOp(idxs, k)]_vars

(* C18: get(k) changes neither the index nor the bytes or length of the    *)
(* file, whether it succeeds or fails; a get that fails with KeyNotFound   *)
(* does no seek and no read.                                               *)
C18_GetFrame ==
    [][last'.op = "get" =>
         /\ idxs' = idxs
         /\ disk' = disk
         /\ last'.tag = "KeyNotFound" => (pos' = pos /\ rbuf' = rbuf)]_vars

\* a get of an absent key has failed while the file offset was inside a
\* non-empty file and the reader held buffered bytes
C18_Witness ==
    /\ last.op = "get"
    /\ last.tag = "KeyNotFound"
    /\ pos > 0
    /\ rbuf # <<>>
    /\ disk # <<>>

====
